---------------------------- MODULE Spec2Model ----------------------------
(***************************************************************************)
(* Project/timeline orchestration and rough-cut synthesis of the desktop   *)
(* video editor (src-tauri/src/main.rs).                                   *)
(*                                                                         *)
(* The commands run as closures on a blocking worker pool, in parallel.    *)
(* The shared state is the files under desktop/data: projects.json and one *)
(* timeline.json per project id.  A step of the model is one whole-file    *)
(* read, one whole-file write, or one event of a collaborator process.     *)
(***************************************************************************)
EXTENDS Integers, Sequences, FiniteSets, TLC

VARIABLES
    clock,      \* the system clock read by now_iso and generate_project_id
    projects,   \* content of desktop/data/projects.json: a sequence of Project
    timelines,  \* desktop/data/<id>/timeline.json: project id -> Timeline
    calls,      \* the worker pool: slot -> the command the slot is running
    started,    \* the number of commands issued so far
    synth,      \* one run of the rough-cut synthesizer on a drawn input
    reads       \* one run of a read command on the files it finds

vars == <<clock, projects, timelines, calls, started, synth, reads>>

---------------------------------------------------------------------------
(* Bounds of the model.                                                    *)

\* Largest source duration, in microseconds, the synthesizer is given.
MaxDurationUs == 3

\* Largest number of remove-ranges in one synthesizer input.
MaxRanges == 2

\* Largest number of commands the caller issues in one run.
MaxCalls == 3

---------------------------------------------------------------------------
(* Range arithmetic.                                                       *)

Min(a, b) == IF a < b THEN a ELSE b

Max(a, b) == IF a > b THEN a ELSE b

\* struct TimeRange { start_us, end_us }
TimeRange(s, e) == [start_us |-> s, end_us |-> e]

\* Bounds of the ranges drawn: up to one microsecond past the largest
\* duration, so that every duration meets ranges that reach past it.
RangeBounds == 0..(MaxDurationUs + 1)

\* Every range over RangeBounds, inverted and empty ones included.
AllRanges == {TimeRange(s, e) : s \in RangeBounds, e \in RangeBounds}

RECURSIVE SeqsUpTo(_, _)
SeqsUpTo(S, n) ==
    IF n = 0 THEN {<<>>}
    ELSE LET shorter == SeqsUpTo(S, n - 1)
         IN  shorter \cup {Append(q, x) : q \in {r \in shorter : Len(r) = n - 1}, x \in S}

\* .map(|range| TimeRange { start_us: min(duration), end_us: min(duration) })
ClampRange(range, duration_us) ==
    TimeRange(Min(range.start_us, duration_us), Min(range.end_us, duration_us))

\* Vec::sort_by_key(|range| range.start_us): a stable sort, as insertion of
\* each element after the elements whose key is not greater.
RECURSIVE InsertByStart(_, _)
InsertByStart(sorted, range) ==
    IF sorted = <<>> THEN <<range>>
    ELSE IF range.start_us < Head(sorted).start_us THEN <<range>> \o sorted
    ELSE <<Head(sorted)>> \o InsertByStart(Tail(sorted), range)

RECURSIVE SortByStart(_)
SortByStart(ranges) ==
    IF ranges = <<>> THEN <<>>
    ELSE InsertByStart(SortByStart(SubSeq(ranges, 1, Len(ranges) - 1)),
                       ranges[Len(ranges)])

\* A plausible slip in the merge loop: the merged end is overwritten by the
\* end of the range merged in, without the comparison.
RECURSIVE MergeRangesNoMax(_, _)
MergeRangesNoMax(rest, merged) ==
    IF rest = <<>> THEN merged
    ELSE LET range == Head(rest)
         IN  IF merged # <<>> /\ range.start_us <= merged[Len(merged)].end_us
             THEN MergeRangesNoMax(Tail(rest),
                      [merged EXCEPT ![Len(merged)].end_us = range.end_us])
             ELSE MergeRangesNoMax(Tail(rest), Append(merged, range))

\* A plausible slip in the merge loop: a range merges only when it starts
\* before the previous end, so that touching ranges stay apart.
RECURSIVE MergeRangesStrict(_, _)
MergeRangesStrict(rest, merged) ==
    IF rest = <<>> THEN merged
    ELSE LET range == Head(rest)
         IN  IF merged # <<>> /\ range.start_us < merged[Len(merged)].end_us
             THEN MergeRangesStrict(Tail(rest),
                      [merged EXCEPT ![Len(merged)].end_us =
                          IF range.end_us > @ THEN range.end_us ELSE @])
             ELSE MergeRangesStrict(Tail(rest), Append(merged, range))

\* The loop `for range in normalized { ... merged.push(range) }`.
RECURSIVE MergeRanges(_, _)
MergeRanges(rest, merged) ==
    IF rest = <<>> THEN merged
    ELSE LET range == Head(rest)
         IN  IF merged # <<>> /\ range.start_us <= merged[Len(merged)].end_us
             THEN MergeRanges(Tail(rest),
                      [merged EXCEPT ![Len(merged)].end_us =
                          IF range.end_us > @ THEN range.end_us ELSE @])
             ELSE MergeRanges(Tail(rest), Append(merged, range))

ClampAndFilter(ranges, duration_us) ==
    SelectSeq([i \in 1..Len(ranges) |-> ClampRange(ranges[i], duration_us)],
              LAMBDA range : range.end_us > range.start_us)

\* A plausible slip in the iterator chain: the filter comes before the map,
\* so a range that lies past the duration is kept and clamped to nothing.
FilterAndClamp(ranges, duration_us) ==
    LET kept == SelectSeq(ranges, LAMBDA range : range.end_us > range.start_us)
    IN  [i \in 1..Len(kept) |-> ClampRange(kept[i], duration_us)]

normalize_ranges_filter_first(ranges, duration_us) ==
    MergeRanges(SortByStart(FilterAndClamp(ranges, duration_us)), <<>>)

normalize_ranges_strict_merge(ranges, duration_us) ==
    MergeRangesStrict(SortByStart(ClampAndFilter(ranges, duration_us)), <<>>)

normalize_ranges_no_max(ranges, duration_us) ==
    MergeRangesNoMax(SortByStart(ClampAndFilter(ranges, duration_us)), <<>>)

normalize_ranges(ranges, duration_us) ==
    MergeRanges(SortByStart(ClampAndFilter(ranges, duration_us)), <<>>)

\* The loop of invert_ranges: the keep-ranges found so far and the cursor.
RECURSIVE InvertLoop(_, _, _)
InvertLoop(rest, keep_ranges, cursor) ==
    IF rest = <<>> THEN [keep_ranges |-> keep_ranges, cursor |-> cursor]
    ELSE LET range == Head(rest)
         IN  InvertLoop(Tail(rest),
                        IF range.start_us > cursor
                        THEN Append(keep_ranges, TimeRange(cursor, range.start_us))
                        ELSE keep_ranges,
                        Max(range.end_us, cursor))

\* A plausible slip after the loop: the span from the cursor to the end of
\* the source is not pushed.
invert_ranges_no_tail(remove_ranges, duration_us) ==
    IF duration_us = 0 THEN <<>>
    ELSE InvertLoop(remove_ranges, <<>>, 0).keep_ranges

invert_ranges(remove_ranges, duration_us) ==
    IF duration_us = 0 THEN <<>>
    ELSE LET walked == InvertLoop(remove_ranges, <<>>, 0)
         IN  IF walked.cursor < duration_us
             THEN Append(walked.keep_ranges, TimeRange(walked.cursor, duration_us))
             ELSE walked.keep_ranges

---------------------------------------------------------------------------
(* Rough-cut synthesizer.                                                  *)

\* Largest clock reading.
MaxClock == 1

\* A step that reads the system clock: the time that has passed since the
\* last reading shows in the new one.  The clock is observed by these steps
\* only, so its advance is part of them.
ReadClock == \E t \in clock..Min(clock + 1, MaxClock) : clock' = t

\* generate_project_id: "proj-<microseconds since the epoch>".  A project id
\* is modelled by the clock reading it is made of.
generate_project_id == clock'

\* now_iso: the clock reading, formatted as text.
now_iso == clock'

\* format!("timeline-{}", generate_project_id())
TimelineId(project_id) == <<"timeline", project_id>>

video_track ==
    [id |-> "track-video-main", name |-> "Main Video", kind |-> "video",
     order |-> 0, locked |-> FALSE]

captions_track ==
    [id |-> "track-captions", name |-> "Captions", kind |-> "caption",
     order |-> 1, locked |-> FALSE]

\* One TimelineClip pushed by the loop of build_rough_cut_timeline.
SourceClip(index, timeline_start, timeline_end, keep, source_ref, remove_ranges) ==
    [clip_id |-> <<"clip", index>>,
     track_id |-> video_track.id,
     clip_type |-> "source_clip",
     start_us |-> timeline_start,
     end_us |-> timeline_end,
     source_start_us |-> keep.start_us,
     source_end_us |-> keep.end_us,
     source_ref |-> source_ref,
     effects |-> "{}",
     transform |-> "{}",
     meta |-> [generatedBy |-> "ai-rough-cut", removeRangesApplied |-> remove_ranges]]

\* A plausible slip in the clip loop: the clip is placed at its source
\* position, so the removed spans stay as gaps on the timeline.
RECURSIVE BuildClipsUnpacked(_, _, _, _, _, _)
BuildClipsUnpacked(keep_ranges, index, clips, timeline_cursor, source_ref, remove_ranges) ==
    IF index > Len(keep_ranges)
    THEN [clips |-> clips, timeline_cursor |-> timeline_cursor]
    ELSE LET keep == keep_ranges[index]
         IN  BuildClipsUnpacked(keep_ranges, index + 1,
                 Append(clips, SourceClip(index, keep.start_us, keep.end_us, keep,
                                          source_ref, remove_ranges)),
                 keep.end_us, source_ref, remove_ranges)

\* for (index, keep) in keep_ranges.iter().enumerate() { ... }
RECURSIVE BuildClips(_, _, _, _, _, _)
BuildClips(keep_ranges, index, clips, timeline_cursor, source_ref, remove_ranges) ==
    IF index > Len(keep_ranges)
    THEN [clips |-> clips, timeline_cursor |-> timeline_cursor]
    ELSE LET keep == keep_ranges[index]
             clip_duration == keep.end_us - keep.start_us
             timeline_start == timeline_cursor
             timeline_end == timeline_start + clip_duration
         IN  BuildClips(keep_ranges, index + 1,
                 Append(clips, SourceClip(index, timeline_start, timeline_end, keep,
                                          source_ref, remove_ranges)),
                 timeline_end, source_ref, remove_ranges)

\* The Timeline value returned by build_rough_cut_timeline.
RoughCutTimeline(project_id, fps, built) ==
    [id |-> TimelineId(generate_project_id),
     project_id |-> project_id,
     version |-> 1,
     status |-> "ROUGH_CUT_READY",
     fps |-> Max(fps, 1),
     duration_us |-> built.timeline_cursor,
     created_at |-> now_iso,
     updated_at |-> now_iso,
     tracks |-> <<video_track, captions_track>>,
     clips |-> built.clips]

build_rough_cut_timeline_unpacked(project_id, duration_us, fps, source_ref, remove_ranges) ==
    LET removes == normalize_ranges(remove_ranges, duration_us)
        keep_ranges == invert_ranges(removes, duration_us)
    IN  RoughCutTimeline(project_id, fps,
            BuildClipsUnpacked(keep_ranges, 1, <<>>, 0, source_ref, removes))

build_rough_cut_timeline(project_id, duration_us, fps, source_ref, remove_ranges) ==
    LET removes == normalize_ranges(remove_ranges, duration_us)
        keep_ranges == invert_ranges(removes, duration_us)
    IN  RoughCutTimeline(project_id, fps,
            BuildClips(keep_ranges, 1, <<>>, 0, source_ref, removes))

---------------------------------------------------------------------------
(* One run of the synthesizer, stage by stage, on an input drawn from the  *)
(* bounded sets: the specification the range-arithmetic properties are     *)
(* checked under.                                                          *)

\* Frame rates given to the synthesizer: 0 is floored to 1.
FpsInputs == {0, 30}

SynthOff == [pc |-> "off"]

SynthInputs ==
    [pc : {"input"},
     project_id : {0},
     duration_us : 0..MaxDurationUs,
     fps : {0},
     source_ref : {"source-video"},
     remove_ranges : SeqsUpTo(AllRanges, MaxRanges),
     normalized : {<<>>},
     keep_ranges : {<<>>},
     timeline : {<<>>}]

SynthNormalize ==
    /\ synth.pc = "input"
    /\ synth' = [synth EXCEPT !.pc = "normalized",
                     !.normalized = normalize_ranges(synth.remove_ranges, synth.duration_us)]
    /\ UNCHANGED <<clock, projects, timelines, calls, started, reads>>

SynthInvert ==
    /\ synth.pc = "normalized"
    /\ synth' = [synth EXCEPT !.pc = "inverted",
                     !.keep_ranges = invert_ranges(synth.normalized, synth.duration_us)]
    /\ UNCHANGED <<clock, projects, timelines, calls, started, reads>>

SynthBuild ==
    /\ synth.pc = "inverted"
    /\ UNCHANGED clock
    /\ \E fps \in FpsInputs :
           synth' = [synth EXCEPT !.pc = "built", !.fps = fps,
                         !.timeline = build_rough_cut_timeline(synth.project_id,
                             synth.duration_us, fps, synth.source_ref,
                             synth.remove_ranges)]
    /\ UNCHANGED <<projects, timelines, calls, started, reads>>

---------------------------------------------------------------------------
(* Text, results and collaborator processes.                               *)

\* A piece of text: its content, whether whitespace precedes and follows it,
\* and whether its bytes are valid UTF-8.
Text(body, lead, trail, utf8) ==
    [body |-> body, lead |-> lead, trail |-> trail, utf8 |-> utf8]

\* A message the core words itself: "...".to_string() / format!(...).
Message(body) == Text(body, FALSE, FALSE, TRUE)

\* str::trim: the surrounding whitespace is dropped.
Trim(text) == [text EXCEPT !.lead = FALSE, !.trail = FALSE]

\* Result<T, String>
Ok(value) == [ok |-> TRUE, value |-> value]

Err(message) == [ok |-> FALSE, error |-> message]

NotFound == Message("Project not found.")

\* run_node_script on the outcome of Command::output(): the process could
\* not be started, or it exited with a status, its stdout and its stderr.
run_node_script(outcome) ==
    IF outcome.kind = "spawn_failed"
    THEN Err(Message("Failed to execute script"))
    ELSE IF outcome.success
    THEN IF outcome.stdout.utf8
         THEN Ok(Trim(outcome.stdout))
         ELSE Err(Message("Invalid UTF-8 stdout"))
    ELSE IF outcome.stderr.utf8
         THEN Err(Trim(outcome.stderr))
         ELSE Err(Message("Unknown script error"))

\* serde_json::from_str::<Value>(&raw): the document, when the text is one.
ParseJson(text, what) ==
    IF text.body.json THEN Ok(text.body) ELSE Err(Message(what))

\* What a collaborator prints on stderr before a non-zero exit: a message
\* and a newline, as valid UTF-8 or not.
Stderrs == {Text("boom", FALSE, TRUE, TRUE), Text("boom", FALSE, TRUE, FALSE)}

NoOutput == Text([json |-> FALSE], FALSE, FALSE, TRUE)

Exited(success, stdout, stderr) ==
    [kind |-> "exit", success |-> success, stdout |-> stdout, stderr |-> stderr]

\* The outcomes of one collaborator process whose stdout, on success, is one
\* of `stdouts`.
Outcomes(stdouts) ==
    {[kind |-> "spawn_failed"]}
        \cup {Exited(TRUE, out, Text("", FALSE, FALSE, TRUE)) : out \in stdouts}
        \cup {Exited(FALSE, NoOutput, err) : err \in Stderrs}

\* stdout of the render and of the enrichment collaborator: a structured
\* document followed by a newline, or text that is no document.
PlainDocs ==
    {Text([json |-> TRUE, ok |-> TRUE], FALSE, TRUE, TRUE),
     Text([json |-> FALSE], FALSE, TRUE, TRUE)}

---------------------------------------------------------------------------
(* Project store.                                                          *)

\* An id no project is ever given: it lies past every reading of the clock.
NoSuchProject == MaxClock + 1

\* The project ids a caller passes: the ids it has seen, in the projects
\* listed or in a call of its own, and one that names no project.
ProjectIds ==
    {projects[i].id : i \in 1..Len(projects)}
        \cup {calls[w].project_id : w \in {v \in DOMAIN calls : calls[v].op # "idle"}}
        \cup {NoSuchProject}

ProjectNames == {"n1"}

SettingsValues == {"s1", "s2"}

\* The settings a project is created with.
InitialSettings == {"s1"}

Ids(collection) == {collection[i].id : i \in 1..Len(collection)}

\* `for project in &mut projects { if project.id == project_id { ...; break } }`:
\* the index of the first record with the id, 0 when there is none.
FirstMatch(collection, project_id) ==
    IF project_id \in Ids(collection)
    THEN CHOOSE i \in 1..Len(collection) :
             /\ collection[i].id = project_id
             /\ \A j \in 1..(i - 1) : collection[j].id # project_id
    ELSE 0

\* The status of the (first) record with the id.
StatusOf(collection, project_id) ==
    collection[FirstMatch(collection, project_id)].status

\* The loop of update_project_status on a collection that holds the id.
WithStatus(collection, project_id, status) ==
    LET i == FirstMatch(collection, project_id)
    IN  [collection EXCEPT ![i].status = status, ![i].updated_at = now_iso]

\* The loop of update_project_settings on a collection that holds the id.
WithSettings(collection, project_id, settings) ==
    LET i == FirstMatch(collection, project_id)
    IN  [collection EXCEPT ![i].settings = settings,
                           ![i].updated_at = now_iso,
                           ![i].status = "SETTINGS_SAVED"]

\* A plausible slip in create_project: the record is made with a status
\* that no other command knows.
NewProjectDraft(name, settings) ==
    [id |-> generate_project_id,
     name |-> name,
     settings |-> settings,
     status |-> "DRAFT",
     created_at |-> now_iso,
     updated_at |-> now_iso]

\* The Project built by create_project.
NewProject(name, settings) ==
    [id |-> generate_project_id,
     name |-> name,
     settings |-> settings,
     status |-> "PROJECT_CREATED",
     created_at |-> now_iso,
     updated_at |-> now_iso]

---------------------------------------------------------------------------
(* The worker pool.  A slot runs one command from its first step to the    *)
(* return of its result; `log` lists, in order, the status writes the call *)
(* has made and the start and end of its collaborator invocation.          *)

Workers == {"w1", "w2"}

WorkerOrder == [w \in Workers |-> IF w = "w1" THEN 1 ELSE 2]

IdleCall == [op |-> "idle", pc |-> "idle"]

Call(w) == calls[w]

Running(w, op, pc) == Call(w).op = op /\ Call(w).pc = pc

\* What is left of a call that has ended: the command, its project, its
\* result, and the log of what it did.
Done(call, result) ==
    [op |-> call.op, pc |-> "done", project_id |-> call.project_id,
     log |-> call.log, result |-> result]

\* The call of slot w ends with `result`.
Finish(w, result) ==
    calls' = [calls EXCEPT ![w] = Done(@, result)]

\* A slot is free before its first command and once its command has ended;
\* the record of an ended call stays until the caller issues a command.
Free(w) == Call(w).pc \in {"idle", "done"}

\* The slots as slot w takes `call`: the results of the calls that have
\* ended are with the caller, and their records are dropped.
Take(w, call) ==
    [v \in Workers |-> IF v = w THEN call
                       ELSE IF Free(v) THEN IdleCall ELSE calls[v]]

\* Issue under a lock that a stage holds while its collaborator runs: no
\* command starts until the collaborator has ended.
IssueExclusive(w) ==
    /\ Free(w)
    /\ \A v \in Workers : Free(v) => WorkerOrder[w] <= WorkerOrder[v]
    /\ \A v \in Workers : Call(v).pc # "running"
    /\ started < MaxCalls
    /\ started' = started + 1

\* The caller issues a command: it starts on the first free slot (the slots
\* are interchangeable).
Issue(w) ==
    /\ Free(w)
    /\ \A v \in Workers : Free(v) => WorkerOrder[w] <= WorkerOrder[v]
    /\ started < MaxCalls
    /\ started' = started + 1

\* create_project: read_projects, then the new record is made and pushed.
CreateProjectRead(w) ==
    /\ ReadClock
    /\ Issue(w)
    /\ \E name \in ProjectNames, settings \in InitialSettings :
           LET project == NewProject(name, settings)
           IN  calls' = Take(w,
                   [op |-> "create_project", pc |-> "write",
                    project_id |-> project.id,
                    pending |-> Append(projects, project),
                    project |-> project,
                    log |-> <<>>,
                    result |-> Ok("none")])
    /\ UNCHANGED <<projects, timelines, synth, reads>>

\* create_project: write_projects, Ok(project).
CreateProjectWrite(w) ==
    /\ Running(w, "create_project", "write")
    /\ projects' = Call(w).pending
    /\ Finish(w, Ok(Call(w).project))
    /\ UNCHANGED <<clock, timelines, started, synth, reads>>

\* update_project_settings as an upsert: an id that matches no record gets a
\* record of its own, and the collection is written.
UpdateSettingsReadUpsert(w) ==
    /\ ReadClock
    /\ Issue(w)
    /\ \E project_id \in ProjectIds, settings \in SettingsValues :
           LET found == FirstMatch(projects, project_id) # 0
               mutated == IF found THEN WithSettings(projects, project_id, settings)
                          ELSE Append(projects,
                                   [NewProject("n1", settings) EXCEPT
                                        !.id = project_id,
                                        !.status = "SETTINGS_SAVED"])
           IN  calls' = Take(w,
                   [op |-> "update_project_settings",
                    pc |-> "write",
                    project_id |-> project_id,
                    pending |-> mutated,
                    project |-> mutated[FirstMatch(mutated, project_id)],
                    log |-> <<>>,
                    result |-> Ok("none")])
    /\ UNCHANGED <<projects, timelines, synth, reads>>

\* update_project_settings: read_projects and the loop; not found ends the
\* call before any write.
UpdateSettingsRead(w) ==
    /\ ReadClock
    /\ Issue(w)
    /\ \E project_id \in ProjectIds, settings \in SettingsValues :
           LET found == FirstMatch(projects, project_id) # 0
               mutated == IF found THEN WithSettings(projects, project_id, settings)
                          ELSE projects
           IN  calls' = Take(w,
                   [op |-> "update_project_settings",
                    pc |-> IF found THEN "write" ELSE "done",
                    project_id |-> project_id,
                    pending |-> mutated,
                    project |-> IF found THEN mutated[FirstMatch(projects, project_id)]
                                ELSE "none",
                    log |-> <<>>,
                    result |-> IF found THEN Ok("none") ELSE Err(NotFound)])
    /\ UNCHANGED <<projects, timelines, synth, reads>>

\* update_project_settings: write_projects, Ok(project).
UpdateSettingsWrite(w) ==
    /\ Running(w, "update_project_settings", "write")
    /\ projects' = Call(w).pending
    /\ Finish(w, Ok(Call(w).project))
    /\ UNCHANGED <<clock, timelines, started, synth, reads>>

---------------------------------------------------------------------------
(* update_project_status, as the two file operations of its closure, and   *)
(* the collaborator invocation of the pipeline stages.                     *)

PipelineOps == {"start_editing", "edit_now", "render_video"}

\* A pipeline call about to run update_project_status(project_id, status);
\* `after` is where the call goes once the status is written ("spawn" or
\* "done") and `result` what it then returns.
ToStatus(call, status, after, result) ==
    [call EXCEPT !.pc = "status_read", !.status = status, !.after = after,
                 !.result = result]

\* spawn_blocking(move || run_node_script(&script, &args)): the collaborator
\* process is started, and the call waits for it to end.
Spawn(call) == [call EXCEPT !.pc = "running", !.log = Append(@, "spawn")]

\* update_project_status that lets a missing record pass (`let _ = ...`
\* without the `??`): the stage goes on as if the status were written.
StatusReadIgnoreMissing(w) ==
    /\ ReadClock
    /\ Call(w).op \in PipelineOps
    /\ Call(w).pc = "status_read"
    /\ IF FirstMatch(projects, Call(w).project_id) # 0
       THEN calls' = [calls EXCEPT ![w] = [@ EXCEPT
                !.pc = "status_write",
                !.pending = WithStatus(projects, Call(w).project_id, Call(w).status)]]
       ELSE calls' = [calls EXCEPT ![w] =
                IF @.after = "done" THEN Done(@, @.result) ELSE Spawn(@)]
    /\ UNCHANGED <<projects, timelines, started, synth, reads>>

\* update_project_status with a guard on the current status: a project that
\* is being rendered takes no other status than the end of the render.
StatusReadGuarded(w) ==
    /\ ReadClock
    /\ Call(w).op \in PipelineOps
    /\ Call(w).pc = "status_read"
    /\ IF /\ FirstMatch(projects, Call(w).project_id) # 0
          /\ \/ StatusOf(projects, Call(w).project_id) # "RENDER_IN_PROGRESS"
             \/ Call(w).status \in {"RENDER_DONE", "RENDER_FAILED"}
       THEN calls' = [calls EXCEPT ![w] = [@ EXCEPT
                !.pc = "status_write",
                !.pending = WithStatus(projects, Call(w).project_id, Call(w).status)]]
       ELSE Finish(w, Err(NotFound))
    /\ UNCHANGED <<projects, timelines, started, synth, reads>>

\* update_project_status: read_projects and the loop; not found ends the call
\* (the `??` of the caller) before any write.
StatusRead(w) ==
    /\ ReadClock
    /\ Call(w).op \in PipelineOps
    /\ Call(w).pc = "status_read"
    /\ IF FirstMatch(projects, Call(w).project_id) # 0
       THEN calls' = [calls EXCEPT ![w] = [@ EXCEPT
                !.pc = "status_write",
                !.pending = WithStatus(projects, Call(w).project_id, Call(w).status)]]
       ELSE Finish(w, Err(NotFound))
    /\ UNCHANGED <<projects, timelines, started, synth, reads>>

\* update_project_status: write_projects.
StatusWrite(w) ==
    /\ Call(w).op \in PipelineOps
    /\ Call(w).pc = "status_write"
    /\ projects' = Call(w).pending
    /\ LET call == [Call(w) EXCEPT !.log = Append(@, Call(w).status)]
       IN  calls' = [calls EXCEPT ![w] =
               IF call.after = "done" THEN Done(call, call.result)
               ELSE Spawn(call)]
    /\ UNCHANGED <<clock, timelines, started, synth, reads>>

\* The fields every pipeline call carries.
PipelineCall(op, pc, project_id) ==
    [op |-> op, pc |-> pc, project_id |-> project_id,
     status |-> "none", after |-> "none", pending |-> <<>>,
     outcome |-> "none", raw |-> Ok("none"), pipeline |-> "none",
     log |-> <<>>, result |-> Ok("none")]

\* The collaborator process has ended with `outcome` and the call has
\* run_node_script's result: the invocation is over.
Exit(call, outcome) ==
    [call EXCEPT !.outcome = outcome, !.raw = run_node_script(outcome),
                 !.log = Append(@, "exit")]

---------------------------------------------------------------------------
(* render_video.                                                           *)

\* render_video without its first status write: the collaborator is started
\* at once.
RenderStartSpawnFirst(w) ==
    /\ Issue(w)
    /\ \E project_id \in ProjectIds :
           calls' = Take(w,
               Spawn(PipelineCall("render_video", "start", project_id)))
    /\ UNCHANGED <<clock, projects, timelines, synth, reads>>

\* render_video up to its first await: update_project_status(RENDER_IN_PROGRESS).
RenderStart(w) ==
    /\ Issue(w)
    /\ \E project_id \in ProjectIds :
           calls' = Take(w,
               ToStatus(PipelineCall("render_video", "start", project_id),
                        "RENDER_IN_PROGRESS", "spawn", Ok("none")))
    /\ UNCHANGED <<clock, projects, timelines, synth, reads>>

\* What render_video does with run_node_script's result.
render_video_on_exit(call, raw) ==
    IF raw.ok
    THEN LET parsed == ParseJson(raw.value, "Invalid render JSON")
         IN  IF parsed.ok
             THEN ToStatus(call, "RENDER_DONE", "done", Ok(parsed.value))
             ELSE Done(call, Err(parsed.error))
    ELSE ToStatus(call, "RENDER_FAILED", "done", Err(raw.error))

\* The render collaborator ends.
RenderExit(w) ==
    /\ Running(w, "render_video", "running")
    /\ \E outcome \in Outcomes(PlainDocs) :
           LET raw == run_node_script(outcome)
           IN  calls' = [calls EXCEPT ![w] = render_video_on_exit(Exit(@, outcome), raw)]
    /\ UNCHANGED <<clock, projects, timelines, started, synth, reads>>

---------------------------------------------------------------------------
(* edit_now.                                                               *)

EditNowStart(w) ==
    /\ Issue(w)
    /\ \E project_id \in ProjectIds :
           calls' = Take(w,
               Spawn(PipelineCall("edit_now", "start", project_id)))
    /\ UNCHANGED <<clock, projects, timelines, synth, reads>>

\* edit_now that stamps its status whatever the collaborator did.
edit_now_on_exit_always(call, raw) ==
    IF raw.ok
    THEN LET parsed == ParseJson(raw.value, "Invalid edit now JSON")
         IN  IF parsed.ok
             THEN ToStatus(call, "ENRICHED_TIMELINE_READY", "done", Ok(parsed.value))
             ELSE Done(call, Err(parsed.error))
    ELSE ToStatus(call, "ENRICHED_TIMELINE_READY", "done", Err(raw.error))

\* What edit_now does with run_node_script's result.
edit_now_on_exit(call, raw) ==
    IF raw.ok
    THEN LET parsed == ParseJson(raw.value, "Invalid edit now JSON")
         IN  IF parsed.ok
             THEN ToStatus(call, "ENRICHED_TIMELINE_READY", "done", Ok(parsed.value))
             ELSE Done(call, Err(parsed.error))
    ELSE Done(call, Err(raw.error))

\* The enrichment collaborator ends.
EditNowExit(w) ==
    /\ Running(w, "edit_now", "running")
    /\ \E outcome \in Outcomes(PlainDocs) :
           LET raw == run_node_script(outcome)
           IN  calls' = [calls EXCEPT ![w] = edit_now_on_exit(Exit(@, outcome), raw)]
    /\ UNCHANGED <<clock, projects, timelines, started, synth, reads>>

---------------------------------------------------------------------------
(* Timeline store.                                                         *)

\* Timeline.version is a u32: the largest value it holds, 2^32 - 1 in the
\* program, scaled down to the model.
MaxVersion == 3

EmptyStore == [p \in {} |-> "none"]

\* write_timeline: the file of the timeline's project is (re)written whole.
write_timeline(store, timeline) ==
    [p \in (DOMAIN store) \cup {timeline.project_id} |->
        IF p = timeline.project_id THEN timeline ELSE store[p]]

\* u32::wrapping_add, the slip a plain `+ 1` would be in a release build.
wrapping_add(a, b) == (a + b) % (MaxVersion + 1)

\* u32::saturating_add
saturating_add(a, b) == IF a + b > MaxVersion THEN MaxVersion ELSE a + b

\* save_timeline with the version counted by wrapping_add.
save_timeline_wrapping(timeline) ==
    [timeline EXCEPT !.version = wrapping_add(@, 1), !.updated_at = now_iso]

\* The timeline save_timeline writes and returns for the timeline given.
save_timeline(timeline) ==
    [timeline EXCEPT !.version = saturating_add(@, 1), !.updated_at = now_iso]

\* Inputs of the direct synthesis and of the cut-planning collaborator: a cut
\* in the middle of the source, or none.
RemoveRangesInputs == {<<>>, <<TimeRange(1, 2)>>}

\* Timelines a caller may make up: a clip list that agrees with durationUs,
\* and one that does not and whose two clips lie on each other.
MadeUpTimelines ==
    {[id |-> TimelineId(0), project_id |-> project_id, version |-> version,
      status |-> "ROUGH_CUT_READY", fps |-> 30, duration_us |-> duration_us,
      created_at |-> 0, updated_at |-> 0,
      tracks |-> <<video_track, captions_track>>,
      clips |->
          IF duration_us = 1
          THEN <<SourceClip(1, 0, 1, TimeRange(0, 1), "source-video", <<>>)>>
          ELSE <<SourceClip(1, 0, 1, TimeRange(0, 1), "source-video", <<>>),
                 SourceClip(2, 0, 1, TimeRange(0, 1), "source-video", <<>>)>>] :
        project_id \in {0}, version \in 0..MaxVersion, duration_us \in {1, MaxDurationUs}}

\* Timelines a caller holds: read from the store (get_timeline) or returned
\* by a call that has ended.
HeldTimelines ==
    {timelines[p] : p \in DOMAIN timelines}
        \cup {Call(w).result.value :
                w \in {v \in Workers :
                         /\ Call(v).pc = "done"
                         /\ Call(v).op \in {"save_timeline", "create_rough_cut_timeline"}
                         /\ Call(v).result.ok}}

\* save_timeline: one closure, one file write.
SaveTimeline(w) ==
    /\ ReadClock
    /\ Issue(w)
    /\ \E payload \in MadeUpTimelines \cup HeldTimelines :
           LET timeline == save_timeline(payload)
           IN  /\ timelines' = write_timeline(timelines, timeline)
               /\ calls' = Take(w,
                      [op |-> "save_timeline", pc |-> "done",
                       project_id |-> payload.project_id,
                       payload |-> payload,
                       log |-> <<>>,
                       result |-> Ok(timeline)])
    /\ UNCHANGED <<projects, synth, reads>>

\* create_rough_cut_timeline: one closure, build and one file write.
CreateRoughCutTimeline(w) ==
    /\ ReadClock
    /\ Issue(w)
    /\ \E project_id \in {0}, remove_ranges \in RemoveRangesInputs :
           LET timeline == build_rough_cut_timeline(project_id, MaxDurationUs, 30,
                               "source-video", remove_ranges)
           IN  /\ timelines' = write_timeline(timelines, timeline)
               /\ calls' = Take(w,
                      [op |-> "create_rough_cut_timeline", pc |-> "done",
                       project_id |-> project_id,
                       log |-> <<>>,
                       result |-> Ok(timeline)])
    /\ UNCHANGED <<projects, synth, reads>>

---------------------------------------------------------------------------
(* start_editing.                                                          *)

\* A document the cut-planning collaborator prints: durationUs may be absent
\* or no unsigned integer, removeRanges absent, a list of ranges, or
\* something else.
PipelineDoc(duration_kind, duration_us, ranges_kind, remove_ranges) ==
    [json |-> TRUE, duration_kind |-> duration_kind, duration_us |-> duration_us,
     ranges_kind |-> ranges_kind, remove_ranges |-> remove_ranges]

StartEditingDocs ==
    {Text(doc, FALSE, TRUE, TRUE) : doc \in
        {PipelineDoc("absent", 0, "absent", <<>>),
         PipelineDoc("u64", MaxDurationUs, "absent", <<>>),
         PipelineDoc("u64", MaxDurationUs, "invalid", <<>>),
         PipelineDoc("u64", MaxDurationUs, "list", <<TimeRange(1, 2)>>),
         [json |-> FALSE]}}

StartEditingStart(w) ==
    /\ Issue(w)
    /\ \E project_id \in ProjectIds :
           calls' = Take(w,
               Spawn(PipelineCall("start_editing", "start", project_id)))
    /\ UNCHANGED <<clock, projects, timelines, synth, reads>>

\* start_editing with removeRanges read leniently: a value that is no list of
\* ranges counts as no ranges, and the rough cut is built and written.
start_editing_on_exit_lenient(call, raw) ==
    IF raw.ok
    THEN LET parsed == ParseJson(raw.value, "Invalid start editing JSON")
         IN  IF ~parsed.ok
             THEN Done(call, Err(parsed.error))
             ELSE IF parsed.value.duration_kind # "u64"
             THEN Done(call, Err(Message("Pipeline response missing durationUs.")))
             ELSE [call EXCEPT !.pc = "timeline_write",
                               !.pipeline = [parsed.value EXCEPT
                                   !.ranges_kind = IF @ = "invalid" THEN "absent" ELSE @]]
    ELSE Done(call, Err(raw.error))

\* What start_editing does with run_node_script's result, up to the closure
\* that builds and writes the timeline.
start_editing_on_exit(call, raw) ==
    IF raw.ok
    THEN LET parsed == ParseJson(raw.value, "Invalid start editing JSON")
         IN  IF ~parsed.ok
             THEN Done(call, Err(parsed.error))
             ELSE IF parsed.value.duration_kind # "u64"
             THEN Done(call, Err(Message("Pipeline response missing durationUs.")))
             ELSE IF parsed.value.ranges_kind = "invalid"
             THEN Done(call, Err(Message("Invalid removeRanges payload")))
             ELSE [call EXCEPT !.pc = "timeline_write", !.pipeline = parsed.value]
    ELSE Done(call, Err(raw.error))

\* The cut-planning collaborator ends.
StartEditingExit(w) ==
    /\ Running(w, "start_editing", "running")
    /\ \E outcome \in Outcomes(StartEditingDocs) :
           LET raw == run_node_script(outcome)
           IN  calls' = [calls EXCEPT ![w] = start_editing_on_exit(Exit(@, outcome), raw)]
    /\ UNCHANGED <<clock, projects, timelines, started, synth, reads>>

\* start_editing without write_timeline: the rough cut is built and returned,
\* the timeline file is left alone.
StartEditingSkipWrite(w) ==
    /\ ReadClock
    /\ Running(w, "start_editing", "timeline_write")
    /\ LET pipeline == Call(w).pipeline
           timeline == build_rough_cut_timeline(Call(w).project_id,
                           pipeline.duration_us, 30, "source-video",
                           IF pipeline.ranges_kind = "absent" THEN <<>>
                           ELSE pipeline.remove_ranges)
       IN  calls' = [calls EXCEPT ![w] =
               ToStatus(@, "ROUGH_CUT_READY", "done",
                        Ok([ok |-> TRUE, pipeline |-> pipeline, timeline |-> timeline]))]
    /\ UNCHANGED <<projects, timelines, started, synth, reads>>

\* start_editing: the closure that builds the rough cut and writes it; the
\* call goes on to update_project_status(ROUGH_CUT_READY).
StartEditingWriteTimeline(w) ==
    /\ ReadClock
    /\ Running(w, "start_editing", "timeline_write")
    /\ LET pipeline == Call(w).pipeline
           timeline == build_rough_cut_timeline(Call(w).project_id,
                           pipeline.duration_us, 30, "source-video",
                           IF pipeline.ranges_kind = "absent" THEN <<>>
                           ELSE pipeline.remove_ranges)
       IN  /\ timelines' = write_timeline(timelines, timeline)
           /\ calls' = [calls EXCEPT ![w] =
                  ToStatus(@, "ROUGH_CUT_READY", "done",
                           Ok([ok |-> TRUE, pipeline |-> pipeline, timeline |-> timeline]))]
    /\ UNCHANGED <<projects, started, synth, reads>>

---------------------------------------------------------------------------
(* Render history and telemetry: files the collaborators write and the     *)
(* core only reads.                                                        *)

\* Largest number of lines in a telemetry event log.
MaxLines == 4

\* A file as a read command finds it: not there, there but not readable as
\* text (fs::read_to_string fails), or there with a text.
NoFile == [state |-> "absent"]

Unreadable == [state |-> "unreadable"]

FileOf(content) == [state |-> "text", text |-> Text(content, FALSE, TRUE, TRUE)]

\* fs::read_to_string(&path).map_err(|error| format!("<what>: {error}"))
read_to_string(file, what) ==
    IF file.state = "text" THEN Ok(file.text) ELSE Err(Message(what))

\* A JSON array of the given entries, a JSON document that is no array, and
\* a text that is no JSON document.
JsonArray(items) == [json |-> TRUE, array |-> TRUE, items |-> items]

JsonObject == [json |-> TRUE, array |-> FALSE]

NotJson == [json |-> FALSE]

HistoryFiles ==
    {NoFile, Unreadable, FileOf(NotJson), FileOf(JsonObject),
     FileOf(JsonArray(<<>>)), FileOf(JsonArray(<<"render-1", "render-2">>))}

\* get_render_history that takes a document which is no array for a damaged
\* file.
get_render_history_strict(project_id, file) ==
    IF file.state = "absent"
    THEN Ok([projectId |-> project_id, history |-> <<>>])
    ELSE LET raw == read_to_string(file, "Failed reading render history file")
         IN  IF ~raw.ok THEN raw
             ELSE LET parsed == ParseJson(raw.value, "Invalid render history JSON")
                  IN  IF ~parsed.ok THEN parsed
                      ELSE IF ~parsed.value.array
                      THEN Err(Message("Invalid render history JSON"))
                      ELSE Ok([projectId |-> project_id,
                               history |-> parsed.value.items])

\* The closure of get_render_history on the history file of the project.
get_render_history(project_id, file) ==
    IF file.state = "absent"
    THEN Ok([projectId |-> project_id, history |-> <<>>])
    ELSE LET raw == read_to_string(file, "Failed reading render history file")
         IN  IF ~raw.ok THEN raw
             ELSE LET parsed == ParseJson(raw.value, "Invalid render history JSON")
                  IN  IF ~parsed.ok THEN parsed
                      ELSE Ok([projectId |-> project_id,
                               history |-> IF parsed.value.array
                                           THEN parsed.value.items ELSE <<>>])

\* A line of events.jsonl: an event (a JSON document), a line that is no
\* JSON document, or a line of white space.
EventLine(n) == [kind |-> "event", n |-> n]

GarbageLine == [kind |-> "garbage", n |-> 0]

BlankLine == [kind |-> "blank", n |-> 0]

EventLines == {EventLine(1), EventLine(2), GarbageLine, BlankLine}

\* request.limit: Option<u32>
NoLimit == [given |-> FALSE, value |-> 0]

Limit(n) == [given |-> TRUE, value |-> n]

LimitInputs == {NoLimit, Limit(0), Limit(1), Limit(2), Limit(500)}

\* request.limit.unwrap_or(80).max(1).min(400)
EffectiveLimit(limit) ==
    Min(Max(IF limit.given THEN limit.value ELSE 80, 1), 400)

RECURSIVE Reverse(_)
Reverse(seq) ==
    IF seq = <<>> THEN <<>> ELSE Append(Reverse(Tail(seq)), Head(seq))

\* The first n elements of a sequence, all of it when it is shorter.
FirstN(seq, n) == SubSeq(seq, 1, Min(n, Len(seq)))

\* The events of the lines that parse, in the order of the lines.
ParsedEvents(lines) ==
    LET events == SelectSeq(lines, LAMBDA line : line.kind = "event")
    IN  [i \in 1..Len(events) |-> events[i].n]

\* recentEvents of get_project_telemetry that gives up on a line it cannot
\* parse.
recent_events_strict(file, limit) ==
    IF file.state = "absent" THEN Ok(<<>>)
    ELSE LET raw == read_to_string(file, "Failed reading telemetry events file")
         IN  IF ~raw.ok THEN raw
             ELSE LET rows == SelectSeq(raw.value.body,
                                        LAMBDA line : line.kind # "blank")
                      taken == FirstN(Reverse(rows), limit)
                  IN  IF \E i \in 1..Len(taken) : taken[i].kind = "garbage"
                      THEN Err(Message("Invalid telemetry events JSON"))
                      ELSE Ok(ParsedEvents(taken))

\* recentEvents of get_project_telemetry: the non-blank lines, the last
\* `limit` of them from the newest back, each parsed on its own.
recent_events(file, limit) ==
    IF file.state = "absent" THEN Ok(<<>>)
    ELSE LET raw == read_to_string(file, "Failed reading telemetry events file")
         IN  IF ~raw.ok THEN raw
             ELSE LET rows == SelectSeq(raw.value.body,
                                        LAMBDA line : line.kind # "blank")
                  IN  Ok(ParsedEvents(FirstN(Reverse(rows), limit)))

\* summary of get_project_telemetry: Null without a summary file.
telemetry_summary(file) ==
    IF file.state = "absent" THEN Ok("null")
    ELSE LET raw == read_to_string(file, "Failed reading telemetry summary file")
         IN  IF ~raw.ok THEN raw
             ELSE ParseJson(raw.value, "Invalid telemetry summary JSON")

\* The closure of get_project_telemetry on the two telemetry files.
get_project_telemetry(project_id, limit, summary_file, events_file) ==
    LET summary == telemetry_summary(summary_file)
    IN  IF ~summary.ok THEN summary
        ELSE LET events == recent_events(events_file, EffectiveLimit(limit))
             IN  IF ~events.ok THEN events
                 ELSE Ok([projectId |-> project_id,
                          summary |-> summary.value,
                          recentEvents |-> events.value])

SummaryFiles == {NoFile, Unreadable, FileOf(NotJson), FileOf(JsonObject)}

EventsFiles ==
    {NoFile, Unreadable} \cup {FileOf(lines) : lines \in SeqsUpTo(EventLines, MaxLines)}

ReadsOff == [pc |-> "off"]

HistoryInputs ==
    [pc : {"input"}, op : {"get_render_history"}, project_id : {0},
     history_file : HistoryFiles, result : {Ok("none")}]

TelemetryInputs ==
    [pc : {"input"}, op : {"get_project_telemetry"}, project_id : {0},
     limit : LimitInputs, summary_file : SummaryFiles, events_file : EventsFiles,
     result : {Ok("none")}]

GetRenderHistory ==
    /\ reads.pc = "input"
    /\ reads.op = "get_render_history"
    /\ reads' = [reads EXCEPT !.pc = "done",
                     !.result = get_render_history(reads.project_id, reads.history_file)]
    /\ UNCHANGED <<clock, projects, timelines, calls, started, synth>>

GetProjectTelemetry ==
    /\ reads.pc = "input"
    /\ reads.op = "get_project_telemetry"
    /\ reads' = [reads EXCEPT !.pc = "done",
                     !.result = get_project_telemetry(reads.project_id, reads.limit,
                                    reads.summary_file, reads.events_file)]
    /\ UNCHANGED <<clock, projects, timelines, calls, started, synth>>

---------------------------------------------------------------------------
(* The state after start-up: no projects file content, no timeline files,  *)
(* every worker slot free.                                                 *)

InitStores ==
    /\ clock = 0
    /\ projects = <<>>
    /\ timelines = EmptyStore
    /\ calls = [w \in Workers |-> IdleCall]
    /\ started = 0

Init ==
    /\ InitStores
    /\ synth = SynthOff
    /\ reads = ReadsOff

\* The project store and the render stage.
Next ==
    \/ \E w \in Workers :
           \/ CreateProjectRead(w)
           \/ CreateProjectWrite(w)
           \/ UpdateSettingsRead(w)
           \/ UpdateSettingsWrite(w)
           \/ StatusRead(w)
           \/ StatusWrite(w)
           \/ RenderStart(w)
           \/ RenderExit(w)

Spec == Init /\ [][Next]_vars

\* A closure handed to the worker pool runs: a call that is at a read or a
\* write of the project store performs it.  Nothing makes a collaborator end,
\* and nothing makes the caller issue a command.
StoreStep(w) ==
    \/ CreateProjectWrite(w)
    \/ UpdateSettingsWrite(w)
    \/ StatusRead(w)
    \/ StatusWrite(w)

SpecLive == Init /\ [][Next]_vars /\ \A w \in Workers : WF_vars(StoreStep(w))

\* The cut-planning and the enrichment stage on the projects created.
NextStages ==
    \/ \E w \in Workers :
           \/ CreateProjectRead(w)
           \/ CreateProjectWrite(w)
           \/ StatusRead(w)
           \/ StatusWrite(w)
           \/ EditNowStart(w)
           \/ EditNowExit(w)
           \/ StartEditingStart(w)
           \/ StartEditingExit(w)
           \/ StartEditingWriteTimeline(w)

SpecStages == Init /\ [][NextStages]_vars

\* The commands the caller issues when every writer of the project store is
\* at its disposal.
MaxCallsAll == 2

WithinAll == started' <= MaxCallsAll

\* Every command that writes the project store.
NextAll ==
    \/ \E w \in Workers :
           \/ CreateProjectRead(w) /\ WithinAll
           \/ CreateProjectWrite(w)
           \/ UpdateSettingsRead(w) /\ WithinAll
           \/ UpdateSettingsWrite(w)
           \/ StatusRead(w)
           \/ StatusWrite(w)
           \/ RenderStart(w) /\ WithinAll
           \/ RenderExit(w)
           \/ EditNowStart(w) /\ WithinAll
           \/ EditNowExit(w)
           \/ StartEditingStart(w) /\ WithinAll
           \/ StartEditingExit(w)
           \/ StartEditingWriteTimeline(w)

SpecAll == Init /\ [][NextAll]_vars

\* A project created at start-up time that earlier commands have taken to
\* `status`.
ProjectIn(status) ==
    [id |-> 0, name |-> "n1", settings |-> "s1", status |-> status,
     created_at |-> 0, updated_at |-> 0]

\* The rough cut an earlier start_editing has stored for the project: one
\* clip over a source of one microsecond.
StoredRoughCut(project_id) ==
    [id |-> TimelineId(0), project_id |-> project_id, version |-> 1,
     status |-> "ROUGH_CUT_READY", fps |-> 30, duration_us |-> 1,
     created_at |-> 0, updated_at |-> 0,
     tracks |-> <<video_track, captions_track>>,
     clips |-> <<SourceClip(1, 0, 1, TimeRange(0, 1), "source-video", <<>>)>>]

\* The stores after earlier commands: one project, in any of the statuses
\* the commands write, and its rough cut.
InitTransitions ==
    /\ clock = 0
    /\ projects \in {<<ProjectIn(status)>> : status \in
           {"PROJECT_CREATED", "SETTINGS_SAVED", "ROUGH_CUT_READY",
            "ENRICHED_TIMELINE_READY", "RENDER_IN_PROGRESS", "RENDER_DONE",
            "RENDER_FAILED"}}
    /\ timelines = write_timeline(EmptyStore, StoredRoughCut(0))
    /\ calls = [w \in Workers |-> IdleCall]
    /\ started = 0
    /\ synth = SynthOff
    /\ reads = ReadsOff

\* The commands the caller issues on the project found at start-up.
MaxCallsTransitions == 1

WithinTransitions == started' <= MaxCallsTransitions

\* The commands that stamp a status on a project that exists.
NextTransitions ==
    \/ \E w \in Workers :
           \/ UpdateSettingsRead(w) /\ WithinTransitions
           \/ UpdateSettingsWrite(w)
           \/ StatusRead(w)
           \/ StatusWrite(w)
           \/ RenderStart(w) /\ WithinTransitions
           \/ RenderExit(w)
           \/ EditNowStart(w) /\ WithinTransitions
           \/ EditNowExit(w)
           \/ StartEditingStart(w) /\ WithinTransitions
           \/ StartEditingExit(w)
           \/ StartEditingWriteTimeline(w)

SpecTransitions == InitTransitions /\ [][NextTransitions]_vars

\* The writers of the timeline store.
NextTimeline ==
    \/ \E w \in Workers :
           \/ SaveTimeline(w)
           \/ CreateRoughCutTimeline(w)
           \/ StartEditingStart(w)
           \/ StartEditingExit(w)
           \/ StartEditingWriteTimeline(w)
           \/ StatusRead(w)

SpecTimeline == Init /\ [][NextTimeline]_vars

\* The synthesizer alone, on every input of the bounded sets.
InitSynth ==
    /\ InitStores
    /\ synth \in SynthInputs
    /\ reads = ReadsOff

\* The read commands alone, on the files of the bounded sets.
InitReads ==
    /\ InitStores
    /\ synth = SynthOff
    /\ reads \in HistoryInputs \cup TelemetryInputs

NextReads ==
    \/ GetRenderHistory
    \/ GetProjectTelemetry

SpecReads == InitReads /\ [][NextReads]_vars

NextSynth ==
    \/ SynthNormalize
    \/ SynthInvert
    \/ SynthBuild

SpecSynth == InitSynth /\ [][NextSynth]_vars

---------------------------------------------------------------------------
(* Properties of the render stage and of the project store.                *)

\* The step is the first of a command, and the command runs on slot w.
IssuedOn(w) ==
    /\ started' = started + 1
    /\ Free(w)
    /\ \A v \in Workers : Free(v) => WorkerOrder[w] <= WorkerOrder[v]

\* The step is one of the call running on slot w, and the call ends with it.
Returns(w) == ~Free(w) /\ calls'[w].pc = "done"

\* The step is one of the call running on slot w.
StepOf(w) == ~Free(w) /\ calls'[w] # calls[w]

\* No other slot has run a command since the call of slot w was issued.
RanAlone(w) == \A v \in Workers \ {w} : calls[v].op = "idle"

Terminal == {"RENDER_DONE", "RENDER_FAILED"}

\* C1: in the log of a render_video call, the start of the collaborator
\* comes after the write of RENDER_IN_PROGRESS, a terminal status (RENDER_DONE
\* or RENDER_FAILED) is written only after the collaborator has ended, and no
\* write of RENDER_IN_PROGRESS follows the write of a terminal status.
C1_RenderStatusOrder ==
    \A w \in Workers :
        Call(w).op = "render_video" =>
            LET log == Call(w).log
            IN  /\ \A i \in 1..Len(log) :
                       log[i] = "spawn" =>
                           \E j \in 1..(i - 1) : log[j] = "RENDER_IN_PROGRESS"
                /\ \A i \in 1..Len(log) :
                       log[i] \in Terminal =>
                           /\ \E j \in 1..(i - 1) : log[j] = "exit"
                           /\ \A j \in (i + 1)..Len(log) :
                                  log[j] # "RENDER_IN_PROGRESS"

\* C1 witness: a render_video call has ended after writing RENDER_IN_PROGRESS,
\* running its collaborator and writing a terminal status.
C1_Witness ==
    \E w \in Workers :
        /\ Call(w).op = "render_video"
        /\ Call(w).pc = "done"
        /\ Len(Call(w).log) = 4
        /\ Call(w).log[1] = "RENDER_IN_PROGRESS"
        /\ Call(w).log[4] \in Terminal

\* The error text of a collaborator that failed: its stderr, trimmed, or the
\* message of the failure to start it.
OriginalError(outcome) ==
    IF outcome.kind = "spawn_failed" THEN Message("Failed to execute script")
    ELSE Trim(outcome.stderr)

\* C2: when the collaborator of a render_video call on an existing project
\* has failed, the call returns the collaborator's error text unchanged and
\* leaves the status of the project RENDER_FAILED.
C2_FailedRenderLeavesFailed ==
    [][\A w \in Workers :
           (/\ Returns(w)
            /\ Call(w).op = "render_video"
            /\ ~Call(w).raw.ok)
           => /\ calls'[w].result = Err(OriginalError(Call(w).outcome))
              /\ Call(w).project_id \in Ids(projects')
              /\ StatusOf(projects', Call(w).project_id) = "RENDER_FAILED"]_vars

\* C3: when a render_video call that has written RENDER_IN_PROGRESS returns
\* and no other command ran meanwhile, the status of the project is
\* RENDER_DONE if the call returns success and RENDER_FAILED if it returns an
\* error.
C3_StatusReflectsOutcome ==
    [][\A w \in Workers :
           (/\ Returns(w)
            /\ Call(w).op = "render_video"
            /\ Call(w).log # <<>>
            /\ RanAlone(w))
           => /\ Call(w).project_id \in Ids(projects')
              /\ StatusOf(projects', Call(w).project_id) =
                     IF calls'[w].result.ok THEN "RENDER_DONE"
                     ELSE "RENDER_FAILED"]_vars

\* C7: update_project_settings and update_project_status on an id that
\* matches no record end at once with the not-found error, and the projects
\* collection is as it was.
C7_NotFoundLeavesCollection ==
    [][\A w \in Workers :
           /\ (/\ IssuedOn(w)
               /\ calls'[w].op = "update_project_settings"
               /\ calls'[w].project_id \notin Ids(projects))
              => /\ calls'[w].pc = "done"
                 /\ calls'[w].result = Err(NotFound)
                 /\ projects' = projects
           /\ (/\ ~Free(w)
               /\ Call(w).op \in PipelineOps
               /\ Call(w).pc = "status_read"
               /\ calls'[w] # calls[w]
               /\ Call(w).project_id \notin Ids(projects))
              => /\ calls'[w].pc = "done"
                 /\ calls'[w].result = Err(NotFound)
                 /\ projects' = projects]_vars

\* C7 witness: with a project in the collection, an update_project_settings
\* call and a render_video call at its first status write have both ended
\* with the not-found error.
C7_Witness ==
    /\ projects # <<>>
    /\ \E w \in Workers :
           /\ Call(w).op = "update_project_settings"
           /\ Call(w).pc = "done"
           /\ Call(w).result = Err(NotFound)
    /\ \E w \in Workers :
           /\ Call(w).op = "render_video"
           /\ Call(w).pc = "done"
           /\ Call(w).log = <<>>
           /\ Call(w).result = Err(NotFound)

\* C8: the id of a project in the collection stays in the collection at
\* every step of every command.
C8_ProjectNeverDeleted ==
    [][Ids(projects) \subseteq Ids(projects')]_vars

\* The step changes, in the projects collection, at most the first record
\* with the id: that record keeps its id, name and created_at, and the other
\* records, their number and their order are as they were.
ChangesOnlyRecord(project_id) ==
    LET m == FirstMatch(projects, project_id)
    IN  /\ m # 0
        /\ Len(projects') = Len(projects)
        /\ \A i \in 1..Len(projects) : i # m => projects'[i] = projects[i]
        /\ projects'[m].id = projects[m].id
        /\ projects'[m].name = projects[m].name
        /\ projects'[m].created_at = projects[m].created_at

\* C25: the write of update_project_settings changes only the record with
\* the id, which keeps id, name and createdAt, takes the settings of the
\* request and the status SETTINGS_SAVED; the write of the status setter
\* changes only the record with the id, which keeps id, name, createdAt and
\* settings and takes the status; every other record, the number of records
\* and their order are unchanged.
C25_OnlyMatchingRecordChanges ==
    [][\A w \in Workers :
           /\ (StepOf(w) /\ Running(w, "update_project_settings", "write"))
              => /\ ChangesOnlyRecord(Call(w).project_id)
                 /\ LET m == FirstMatch(projects, Call(w).project_id)
                    IN  /\ projects'[m].settings = Call(w).project.settings
                        /\ projects'[m].status = "SETTINGS_SAVED"
           /\ (StepOf(w) /\ Call(w).op \in PipelineOps /\ Call(w).pc = "status_write")
              => /\ ChangesOnlyRecord(Call(w).project_id)
                 /\ LET m == FirstMatch(projects, Call(w).project_id)
                    IN  /\ projects'[m].settings = projects[m].settings
                        /\ projects'[m].status = Call(w).status]_vars

\* The call on slot w is a stage that waits for its collaborator to end.
AwaitsCollaborator(w) == Call(w).op \in PipelineOps /\ Call(w).pc = "running"

\* Slot v can take every command.
CanStart(v) ==
    /\ ENABLED (CreateProjectRead(v) /\ WithinAll)
    /\ ENABLED (UpdateSettingsRead(v) /\ WithinAll)
    /\ ENABLED (RenderStart(v) /\ WithinAll)
    /\ ENABLED (EditNowStart(v) /\ WithinAll)
    /\ ENABLED (StartEditingStart(v) /\ WithinAll)

\* The call on slot v, if it is at a store operation, can perform it.
CanGoOn(v) ==
    /\ Running(v, "create_project", "write") => ENABLED CreateProjectWrite(v)
    /\ Running(v, "update_project_settings", "write") => ENABLED UpdateSettingsWrite(v)
    /\ Running(v, "start_editing", "timeline_write")
           => ENABLED StartEditingWriteTimeline(v)
    /\ (Call(v).op \in PipelineOps /\ Call(v).pc = "status_read")
           => ENABLED StatusRead(v)
    /\ (Call(v).op \in PipelineOps /\ Call(v).pc = "status_write")
           => ENABLED StatusWrite(v)

RenderCollaboratorEnded(w) ==
    /\ Call(w).op = "render_video"
    /\ \E i \in 1..Len(Call(w).log) : Call(w).log[i] = "exit"

\* The render_video call on slot w has returned, and the last status it
\* wrote is RENDER_DONE or RENDER_FAILED.
RenderEndedTerminal(w) ==
    /\ Call(w).op = "render_video"
    /\ Call(w).pc = "done"
    /\ Call(w).log # <<>>
    /\ Call(w).log[Len(Call(w).log)] \in Terminal

\* C27: a render_video call that waits for its collaborator leaves that
\* state only with the collaborator's end, and while it waits and no other
\* command runs the projects collection stays as it is (status
\* RENDER_IN_PROGRESS); and once the collaborator has ended, the call
\* eventually returns with RENDER_DONE or RENDER_FAILED written after
\* RENDER_IN_PROGRESS.
C27_RenderEndsWithCollaborator ==
    /\ [][\A w \in Workers :
              (AwaitsCollaborator(w) /\ Call(w).op = "render_video") =>
                  /\ calls'[w] # calls[w] => RenderCollaboratorEnded(w)'
                  /\ (calls'[w] = calls[w] /\ RanAlone(w)) => projects' = projects]_vars
    /\ \A w \in Workers : RenderCollaboratorEnded(w) ~> RenderEndedTerminal(w)

\* C28: a render_video call leaves both stores alone when it is issued, and
\* when its update_project_status(RENDER_IN_PROGRESS) finds no record with
\* the project id the call ends there with the not-found error: its log is
\* empty (the collaborator was not started and no status was written) and
\* both stores are as they were.
C28_RenderOfMissingProject ==
    [][\A w \in Workers :
           /\ (IssuedOn(w) /\ calls'[w].op = "render_video")
              => /\ calls'[w].log = <<>>
                 /\ projects' = projects
                 /\ timelines' = timelines
           /\ (/\ StepOf(w)
               /\ Running(w, "render_video", "status_read")
               /\ Call(w).status = "RENDER_IN_PROGRESS"
               /\ Call(w).project_id \notin Ids(projects))
              => /\ calls'[w].pc = "done"
                 /\ calls'[w].result = Err(NotFound)
                 /\ calls'[w].log = <<>>
                 /\ projects' = projects
                 /\ timelines' = timelines]_vars

\* C28 witness: a render_video call for the id of no project has ended with
\* the not-found error and an empty log, while the collection holds a project
\* that nothing has touched.
C28_Witness ==
    \E w \in Workers :
        /\ Call(w).op = "render_video"
        /\ Call(w).pc = "done"
        /\ Call(w).project_id = NoSuchProject
        /\ Call(w).result = Err(NotFound)
        /\ Call(w).log = <<>>
        /\ Len(projects) = 1
        /\ projects[1].status = "PROJECT_CREATED"

---------------------------------------------------------------------------
(* Properties of the timeline store.                                       *)

\* The step is a save_timeline call on slot w.
SaveStep(w) == IssuedOn(w) /\ calls'[w].op = "save_timeline"

\* C4: each save_timeline leaves the persisted version of the project equal
\* to the version persisted before it plus 1.
C4_SaveAdvancesPersisted ==
    [][\A w \in Workers :
           (/\ SaveStep(w)
            /\ calls'[w].project_id \in DOMAIN timelines)
           => timelines'[calls'[w].project_id].version =
                  timelines[calls'[w].project_id].version + 1]_vars

\* C5: the version persisted for a project never decreases, whichever of
\* create_rough_cut_timeline, start_editing and save_timeline writes.
C5_VersionNeverDecreases ==
    [][\A p \in DOMAIN timelines :
           timelines'[p].version >= timelines[p].version]_vars

\* A save_timeline call returns and persists the timeline given with the
\* version raised by 1, held at the largest u32, and updatedAt stamped with
\* the time of the call.
SingleSave(w) ==
    LET payload == calls'[w].payload
        saved == [payload EXCEPT
                      !.version = Min(payload.version + 1, MaxVersion),
                      !.updated_at = clock']
    IN  /\ calls'[w].result = Ok(saved)
        /\ timelines'[payload.project_id] = saved

\* The slots that hold a save_timeline call which has ended and whose result
\* is the timeline the save on slot w is given: the two are saves in
\* sequence, the second fed the result of the first.
FedBy(w) ==
    {v \in Workers :
        /\ Call(v).op = "save_timeline"
        /\ Call(v).pc = "done"
        /\ Call(v).result.value = calls'[w].payload}

\* C6 as stated: a save returns and persists the timeline given with
\* version = min(version + 1, largest u32) and a fresh updatedAt, and two
\* saves in sequence raise the version by exactly 2.
C6_TwoSavesRaiseByTwo ==
    [][\A w \in Workers :
           SaveStep(w) =>
               /\ SingleSave(w)
               /\ \A v \in FedBy(w) :
                      calls'[w].result.value.version =
                          Call(v).payload.version + 2]_vars

\* C6: a save returns and persists the timeline given with
\* version = min(version + 1, largest u32) and a fresh updatedAt, and two
\* saves in sequence raise the version to min(version + 2, largest u32).
C6_SaveSaturating ==
    [][\A w \in Workers :
           SaveStep(w) =>
               /\ SingleSave(w)
               /\ \A v \in FedBy(w) :
                      calls'[w].result.value.version =
                          Min(Call(v).payload.version + 2, MaxVersion)]_vars

\* C6 witness: a save has been fed the result of a save that reached the
\* largest version, and has returned that version again.
C6_Witness ==
    \E w \in Workers :
        /\ Call(w).op = "save_timeline"
        /\ Call(w).pc = "done"
        /\ Call(w).payload.version = MaxVersion
        /\ Call(w).payload.updated_at > 0
        /\ Call(w).result.value.version = MaxVersion

---------------------------------------------------------------------------
(* Properties of the range arithmetic and of the synthesizer.              *)

RECURSIVE TotalLength(_)
TotalLength(ranges) ==
    IF ranges = <<>> THEN 0
    ELSE (Head(ranges).end_us - Head(ranges).start_us) + TotalLength(Tail(ranges))

\* The number of microseconds of [0, duration_us) that lie in some range of
\* `ranges` once its bounds are clamped to the duration.
CoveredLength(ranges, duration_us) ==
    Cardinality({t \in 0..(duration_us - 1) :
        \E i \in 1..Len(ranges) :
            /\ Min(ranges[i].start_us, duration_us) <= t
            /\ t < Min(ranges[i].end_us, duration_us)})

\* C9: the keep-ranges invert(normalize(remove, D), D) are sorted ascending,
\* pairwise non-overlapping, each non-empty, and their total length plus the
\* length the remove-ranges cover after clamping to [0, D] equals D.
C9_KeepRangesPartition ==
    synth.pc \in {"inverted", "built"} =>
        LET keep == synth.keep_ranges
            D == synth.duration_us
        IN  /\ \A i \in 1..Len(keep) : keep[i].end_us > keep[i].start_us
            /\ \A i \in 1..Len(keep) : \A j \in 1..Len(keep) :
                   i < j => /\ keep[i].start_us < keep[j].start_us
                            /\ keep[i].end_us <= keep[j].start_us
            /\ TotalLength(keep) + CoveredLength(synth.remove_ranges, D) = D

\* C9 witness: two remove-ranges given out of order, overlapping and reaching
\* past the duration, inverted to a non-empty keep list.
C9_Witness ==
    /\ synth.pc = "inverted"
    /\ Len(synth.remove_ranges) = 2
    /\ synth.remove_ranges[1].start_us > synth.remove_ranges[2].start_us
    /\ synth.remove_ranges[1].end_us > synth.duration_us
    /\ synth.remove_ranges[2].end_us > synth.remove_ranges[1].start_us
    /\ synth.keep_ranges # <<>>

\* C10: the clips are a contiguous gap-free packing of the keep-ranges in
\* order, from timeline position 0, each as long as its source range, and
\* durationUs is the sum of the kept durations (the end of the last clip, or
\* 0 with no clips).
C10_PackedClips ==
    synth.pc = "built" =>
        LET clips == synth.timeline.clips
            keep == synth.keep_ranges
        IN  /\ Len(clips) = Len(keep)
            /\ \A k \in 1..Len(clips) :
                   /\ clips[k].source_start_us = keep[k].start_us
                   /\ clips[k].source_end_us = keep[k].end_us
                   /\ clips[k].end_us - clips[k].start_us =
                          clips[k].source_end_us - clips[k].source_start_us
                   /\ clips[k].start_us = IF k = 1 THEN 0 ELSE clips[k - 1].end_us
            /\ synth.timeline.duration_us = TotalLength(keep)
            /\ synth.timeline.duration_us =
                   IF clips = <<>> THEN 0 ELSE clips[Len(clips)].end_us

\* C10 witness: a cut in the middle of the source gives two clips, the second
\* moved up against the first, and a timeline shorter than the source.
C10_Witness ==
    /\ synth.pc = "built"
    /\ Len(synth.timeline.clips) = 2
    /\ synth.timeline.clips[2].start_us < synth.timeline.clips[2].source_start_us
    /\ synth.timeline.duration_us < synth.duration_us

\* C18: normalizing a normalized range set gives it back unchanged.
C18_NormalizeIdempotent ==
    synth.pc \in {"normalized", "inverted", "built"} =>
        normalize_ranges(synth.normalized, synth.duration_us) = synth.normalized

\* C18 witness: two remove-ranges have been normalized into one range that
\* is neither of them.
C18_Witness ==
    /\ synth.pc = "normalized"
    /\ Len(synth.remove_ranges) = 2
    /\ Len(synth.normalized) = 1
    /\ synth.normalized[1] \notin {synth.remove_ranges[1], synth.remove_ranges[2]}

\* The clips are one clip whose timeline range and source range are both
\* [0, duration_us).
OneWholeClip(clips, duration_us) ==
    /\ Len(clips) = 1
    /\ clips[1].start_us = 0
    /\ clips[1].end_us = duration_us
    /\ clips[1].source_start_us = 0
    /\ clips[1].source_end_us = duration_us

\* C19 as stated: for every duration, synthesis with no remove-ranges gives
\* exactly one clip, whose timeline range and source range are both
\* [0, durationUs).
C19_EmptyRemoveOneClip ==
    (synth.pc = "built" /\ synth.remove_ranges = <<>>) =>
        OneWholeClip(synth.timeline.clips, synth.duration_us)

\* C19: for every duration above 0, synthesis with no remove-ranges gives
\* exactly one clip, whose timeline range and source range are both
\* [0, durationUs); for duration 0 it gives no clip.
C19_EmptyRemoveOneClipIfPositive ==
    (synth.pc = "built" /\ synth.remove_ranges = <<>>) =>
        IF synth.duration_us > 0
        THEN OneWholeClip(synth.timeline.clips, synth.duration_us)
        ELSE synth.timeline.clips = <<>>

\* C19 witness: the longest source has been synthesized with no
\* remove-ranges into one clip.
C19_Witness ==
    /\ synth.pc = "built"
    /\ synth.remove_ranges = <<>>
    /\ synth.duration_us = MaxDurationUs
    /\ Len(synth.timeline.clips) = 1

\* The statuses a project can have.
ProjectStatuses ==
    {"PROJECT_CREATED", "SETTINGS_SAVED", "ROUGH_CUT_READY",
     "ENRICHED_TIMELINE_READY", "RENDER_IN_PROGRESS", "RENDER_DONE",
     "RENDER_FAILED"}

\* The call of slot w is a create_project, and it returns with this step.
CreateProjectReturns(w) ==
    Running(w, "create_project", "write") /\ calls'[w].pc = "done"

\* C20: after every step, the status of every project of the collection is
\* one of PROJECT_CREATED, SETTINGS_SAVED, ROUGH_CUT_READY,
\* ENRICHED_TIMELINE_READY, RENDER_IN_PROGRESS, RENDER_DONE and RENDER_FAILED;
\* and when create_project returns, the project it returns is the last of
\* the collection and has the status PROJECT_CREATED.
C20_StatusInVocabulary ==
    [][/\ \A i \in 1..Len(projects') :
              projects'[i].status \in ProjectStatuses
       /\ \A w \in Workers :
              CreateProjectReturns(w) =>
                  /\ calls'[w].result.ok
                  /\ calls'[w].result.value.status = "PROJECT_CREATED"
                  /\ Len(projects') > 0
                  /\ projects'[Len(projects')] = calls'[w].result.value]_vars

\* C20 witness: a project that was created has been taken to the end of a
\* failed render.
C20_Witness ==
    \E i \in 1..Len(projects) : projects[i].status = "RENDER_FAILED"

\* The microseconds u of [0, duration_us) such that [u, u + 1) lies in one of
\* the ranges, each range cut at the duration.
Covered(ranges, duration_us) ==
    {u \in 0..(duration_us - 1) :
        \E i \in 1..Len(ranges) :
            ranges[i].start_us <= u /\ u < ranges[i].end_us}

\* C21: the result of normalization has every range inside [0, duration_us]
\* with end_us > start_us, each range starts after the end of the one before
\* it (so that the list is sorted and strictly separated), and the ranges
\* cover what the input ranges cover of the source and nothing else (a merge
\* ends at the larger of the two ends).
C21_NormalizedShape ==
    synth.pc \in {"normalized", "inverted", "built"} =>
        /\ \A i \in 1..Len(synth.normalized) :
               /\ synth.normalized[i].start_us >= 0
               /\ synth.normalized[i].end_us <= synth.duration_us
               /\ synth.normalized[i].end_us > synth.normalized[i].start_us
        /\ \A i \in 1..(Len(synth.normalized) - 1) :
               /\ synth.normalized[i + 1].start_us > synth.normalized[i].end_us
               /\ synth.normalized[i + 1].start_us > synth.normalized[i].start_us
        /\ Covered(synth.normalized, synth.duration_us)
               = Covered(synth.remove_ranges, synth.duration_us)

\* C21 witness: two ranges that touch, given later range first, have been
\* merged into one.
C21_Witness ==
    /\ synth.pc = "normalized"
    /\ Len(synth.remove_ranges) = 2
    /\ synth.remove_ranges[1].start_us = synth.remove_ranges[2].end_us
    /\ synth.remove_ranges[2].start_us < synth.remove_ranges[2].end_us
    /\ synth.remove_ranges[1].start_us < synth.remove_ranges[1].end_us
    /\ synth.remove_ranges[1].end_us <= synth.duration_us
    /\ synth.normalized
           = <<TimeRange(synth.remove_ranges[2].start_us,
                         synth.remove_ranges[1].end_us)>>

---------------------------------------------------------------------------
(* Properties of the timelines held in the store.                          *)

\* The clips of a timeline that lie on the principal video track.
VideoClips(timeline) ==
    SelectSeq(timeline.clips, LAMBDA clip : clip.track_id = video_track.id)

\* The end of the last clip on the principal video track, 0 with no clips.
LastClipEnd(timeline) ==
    LET clips == VideoClips(timeline)
    IN  IF clips = <<>> THEN 0 ELSE clips[Len(clips)].end_us

\* C11: every timeline held in the timeline store has durationUs equal to
\* the end of the last clip on the principal video track, or 0 if it has no
\* clips.
C11_DurationIsLastClipEnd ==
    \A p \in DOMAIN timelines :
        timelines[p].duration_us = LastClipEnd(timelines[p])

\* Every clip is non-empty on the timeline and in the source, and no two
\* clips of one track overlap on the timeline.
ClipsWellFormed(clips) ==
    /\ \A i \in 1..Len(clips) :
           /\ clips[i].end_us > clips[i].start_us
           /\ clips[i].source_end_us > clips[i].source_start_us
    /\ \A i, j \in 1..Len(clips) :
           (i < j /\ clips[i].track_id = clips[j].track_id) =>
               \/ clips[i].end_us <= clips[j].start_us
               \/ clips[j].end_us <= clips[i].start_us

\* C22: every clip of every timeline held in the timeline store has
\* endUs > startUs and sourceEndUs > sourceStartUs, and no two clips of one
\* track overlap in [startUs, endUs).
C22_StoredClipsWellFormed ==
    \A p \in DOMAIN timelines : ClipsWellFormed(timelines[p].clips)

---------------------------------------------------------------------------
(* Properties of the cut-planning and of the enrichment stage.             *)

\* The timeline is the rough cut of the durationUs and removeRanges of the
\* document `pipeline` for the project, whatever its time stamps.
SynthesizedFrom(timeline, project_id, pipeline) ==
    LET built == build_rough_cut_timeline(project_id, pipeline.duration_us, 30,
                     "source-video",
                     IF pipeline.ranges_kind = "absent" THEN <<>>
                     ELSE pipeline.remove_ranges)
    IN  timeline = [built EXCEPT !.id = timeline.id,
                                 !.created_at = timeline.created_at,
                                 !.updated_at = timeline.updated_at]

\* The step ends a start_editing call on slot w with success.
StartEditingSucceeds(w) ==
    /\ Returns(w)
    /\ Call(w).op = "start_editing"
    /\ calls'[w].result.ok

\* What a start_editing call that returns success has done: its collaborator
\* ran, the timeline it returns is the rough cut of the collaborator's
\* document with version 1 and status ROUGH_CUT_READY, and the project's
\* status is ROUGH_CUT_READY.
StartEditingDone(w) ==
    LET returned == calls'[w].result.value
        project_id == Call(w).project_id
    IN  /\ calls'[w].log = <<"spawn", "exit", "ROUGH_CUT_READY">>
        /\ returned.pipeline = Call(w).raw.value.body
        /\ SynthesizedFrom(returned.timeline, project_id, returned.pipeline)
        /\ returned.timeline.version = 1
        /\ returned.timeline.status = "ROUGH_CUT_READY"
        /\ project_id \in Ids(projects')
        /\ StatusOf(projects', project_id) = "ROUGH_CUT_READY"

\* The timeline persisted for the project of a start_editing call is the
\* rough cut of the document of the call's collaborator, with version 1 and
\* status ROUGH_CUT_READY.
StartEditingPersisted(w) ==
    /\ Call(w).project_id \in DOMAIN timelines'
    /\ LET persisted == timelines'[Call(w).project_id]
       IN  /\ SynthesizedFrom(persisted, Call(w).project_id,
                              calls'[w].result.value.pipeline)
           /\ persisted.version = 1
           /\ persisted.status = "ROUGH_CUT_READY"

\* C12 as stated: when start_editing returns success, the rough cut of its
\* collaborator's durationUs and removeRanges is the persisted timeline of
\* the project, with version 1 and status ROUGH_CUT_READY, and the project's
\* status is ROUGH_CUT_READY.
C12_StartEditingPersists ==
    [][\A w \in Workers :
           StartEditingSucceeds(w) =>
               StartEditingDone(w) /\ StartEditingPersisted(w)]_vars

\* C12: when start_editing returns success, its collaborator was invoked, the
\* timeline it wrote and returns is the rough cut of the collaborator's
\* durationUs and removeRanges with version 1 and status ROUGH_CUT_READY, the
\* project's status is ROUGH_CUT_READY, and such a rough cut is the persisted
\* timeline of the project when no other command ran meanwhile.
C12_StartEditingPersistsAlone ==
    [][\A w \in Workers :
           StartEditingSucceeds(w) =>
               /\ StartEditingDone(w)
               /\ RanAlone(w) => StartEditingPersisted(w)]_vars

\* C12 witness: a start_editing call has returned the two-clip rough cut of
\* a document with a cut in the middle, that timeline is the stored one and
\* the project's status is ROUGH_CUT_READY.
C12_Witness ==
    \E w \in Workers :
        /\ Call(w).op = "start_editing"
        /\ Call(w).pc = "done"
        /\ Call(w).result.ok
        /\ Len(Call(w).result.value.timeline.clips) = 2
        /\ Call(w).project_id \in DOMAIN timelines
        /\ timelines[Call(w).project_id] = Call(w).result.value.timeline
        /\ StatusOf(projects, Call(w).project_id) = "ROUGH_CUT_READY"

\* The step is the one in which the collaborator of the start_editing call
\* on slot w ends.
StartEditingExits(w) ==
    /\ ~Free(w)
    /\ Call(w).op = "start_editing"
    /\ Call(w).pc = "running"
    /\ calls'[w] # calls[w]

\* The collaborator of the call on slot w has ended with `outcome`.
ExitedWith(w, outcome) ==
    calls'[w] = start_editing_on_exit(Exit(Call(w), outcome), run_node_script(outcome))

\* The start_editing call on slot w ends in this step with `error`, having
\* written neither store.
FailsUnwritten(w, error) ==
    /\ calls'[w].pc = "done"
    /\ calls'[w].result = Err(error)
    /\ calls'[w].log = <<"spawn", "exit">>
    /\ projects' = projects
    /\ timelines' = timelines

\* C13: start_editing fails with "Pipeline response missing durationUs." when
\* the collaborator's document lacks durationUs, with "Invalid removeRanges
\* payload" when removeRanges is no list of time ranges, and with the
\* collaborator's error when the collaborator fails; in each case the call
\* has modified neither the timeline store nor the project store.
C13_StartEditingRejects ==
    [][\A w \in Workers :
           /\ (IssuedOn(w) /\ calls'[w].op = "start_editing")
              => projects' = projects /\ timelines' = timelines
           /\ StartEditingExits(w) =>
                  \A outcome \in Outcomes(StartEditingDocs) :
                      ExitedWith(w, outcome) =>
                          LET raw == run_node_script(outcome)
                              document == raw.value.body
                          IN  /\ ~raw.ok => FailsUnwritten(w, raw.error)
                              /\ (/\ raw.ok
                                  /\ document.json
                                  /\ document.duration_kind # "u64")
                                 => FailsUnwritten(w,
                                        Message("Pipeline response missing durationUs."))
                              /\ (/\ raw.ok
                                  /\ document.json
                                  /\ document.duration_kind = "u64"
                                  /\ document.ranges_kind = "invalid")
                                 => FailsUnwritten(w,
                                        Message("Invalid removeRanges payload"))]_vars

\* C13 witness: on a project that exists, a start_editing call has ended with
\* the invalid-ranges error, and the project has no timeline and its first
\* status.
C13_Witness ==
    \E w \in Workers :
        /\ Call(w).op = "start_editing"
        /\ Call(w).pc = "done"
        /\ Call(w).result = Err(Message("Invalid removeRanges payload"))
        /\ Call(w).project_id \in Ids(projects)
        /\ StatusOf(projects, Call(w).project_id) = "PROJECT_CREATED"
        /\ Call(w).project_id \notin DOMAIN timelines

\* The start_editing call on slot w ends with an error in this step.
StartEditingFails(w) ==
    /\ ~Free(w)
    /\ Call(w).op = "start_editing"
    /\ calls'[w].pc = "done"
    /\ ~calls'[w].result.ok

\* The start_editing call on slot w is past the closure that writes the
\* timeline: it is in update_project_status.
PastTimelineWrite(w) ==
    /\ Call(w).op = "start_editing"
    /\ Call(w).pc \in {"status_read", "status_write"}

\* C23: a start_editing call that returns an error has not written the
\* timeline of its project: it never ends with an error once it is past its
\* timeline write, that is, with the timeline written and the status
\* ROUGH_CUT_READY not set.
C23_NoTimelineWithoutStatus ==
    [][\A w \in Workers :
           StartEditingFails(w) => ~PastTimelineWrite(w)]_vars

\* The statuses a command stamps.
StampsOf(op) ==
    IF op = "update_project_settings" THEN {"SETTINGS_SAVED"}
    ELSE IF op = "start_editing" THEN {"ROUGH_CUT_READY"}
    ELSE IF op = "edit_now" THEN {"ENRICHED_TIMELINE_READY"}
    ELSE IF op = "render_video"
    THEN {"RENDER_IN_PROGRESS", "RENDER_DONE", "RENDER_FAILED"}
    ELSE {}

\* C24: no command looks at the status a project has.  update_project_settings
\* on a project that exists is accepted and leaves it in SETTINGS_SAVED;
\* render_video starts with the write of RENDER_IN_PROGRESS, start_editing and
\* edit_now with their collaborator; every update_project_status of a stage
\* on a project that exists goes on to its write, whatever status the
\* project has, and the write leaves the project in the status of the stage
\* (ROUGH_CUT_READY, ENRICHED_TIMELINE_READY, RENDER_IN_PROGRESS, RENDER_DONE
\* or RENDER_FAILED); a stage that ends with an error ends so with its
\* collaborator's exit, or with not found for a project that has no record.
C24_TransitionsNotValidated ==
    [][\A w \in Workers :
           /\ (IssuedOn(w) /\ calls'[w].op = "update_project_settings"
                  /\ calls'[w].project_id \in Ids(projects))
              => /\ calls'[w].pc = "write"
                 /\ StatusOf(calls'[w].pending, calls'[w].project_id)
                        = "SETTINGS_SAVED"
           /\ (StepOf(w) /\ Running(w, "update_project_settings", "write"))
              => /\ StatusOf(projects', Call(w).project_id) = "SETTINGS_SAVED"
                 /\ calls'[w].result.ok
           /\ (IssuedOn(w) /\ calls'[w].op = "render_video")
              => /\ calls'[w].pc = "status_read"
                 /\ calls'[w].status = "RENDER_IN_PROGRESS"
           /\ (IssuedOn(w) /\ calls'[w].op \in {"start_editing", "edit_now"})
              => calls'[w].pc = "running"
           /\ (StepOf(w) /\ Call(w).op \in PipelineOps /\ Call(w).pc = "status_read")
              => /\ Call(w).status \in StampsOf(Call(w).op)
                 /\ IF Call(w).project_id \in Ids(projects)
                    THEN /\ calls'[w].pc = "status_write"
                         /\ StatusOf(calls'[w].pending, Call(w).project_id)
                                = Call(w).status
                    ELSE /\ calls'[w].pc = "done"
                         /\ calls'[w].result = Err(NotFound)
           /\ (StepOf(w) /\ Call(w).op \in PipelineOps /\ Call(w).pc = "status_write")
              => StatusOf(projects', Call(w).project_id) = Call(w).status
           /\ (StepOf(w) /\ Call(w).op \in PipelineOps
                  /\ calls'[w].pc = "done" /\ ~calls'[w].result.ok)
              => \/ Call(w).pc = "running"
                 \/ Call(w).pc = "status_read"
                        /\ Call(w).project_id \notin Ids(projects)
                 \/ Call(w).pc = "status_write" /\ Call(w).status = "RENDER_FAILED"]_vars

\* C24 witness: start_editing is about to stamp ROUGH_CUT_READY on a project
\* whose render is done.
C24_Witness ==
    \E w \in Workers :
        /\ Running(w, "start_editing", "status_write")
        /\ Call(w).project_id \in Ids(projects)
        /\ StatusOf(projects, Call(w).project_id) = "RENDER_DONE"
        /\ StatusOf(Call(w).pending, Call(w).project_id) = "ROUGH_CUT_READY"

\* The step is one of the edit_now call on slot w.
EditNowSteps(w) ==
    \/ IssuedOn(w) /\ calls'[w].op = "edit_now"
    \/ ~Free(w) /\ Call(w).op = "edit_now" /\ calls'[w] # calls[w]

\* The step is the one in which the collaborator of the edit_now call on
\* slot w ends, and it ends with `outcome`.
EditNowExitedWith(w, outcome) ==
    /\ ~Free(w)
    /\ Call(w).op = "edit_now"
    /\ Call(w).pc = "running"
    /\ calls'[w] = edit_now_on_exit(Exit(Call(w), outcome), run_node_script(outcome))

\* C14: an edit_now call writes the project store only to set
\* ENRICHED_TIMELINE_READY, after its collaborator has exited with success
\* and printed a document, and then returns that document as it is; no step
\* of the call writes the timeline store; when the collaborator fails the
\* call ends at once with the error and both stores are as they were.
C14_EditNowFrame ==
    [][\A w \in Workers :
           /\ EditNowSteps(w) =>
                  /\ timelines' = timelines
                  /\ projects' # projects =>
                         /\ Call(w).pc = "status_write"
                         /\ Call(w).status = "ENRICHED_TIMELINE_READY"
                         /\ Call(w).log = <<"spawn", "exit">>
                         /\ Call(w).raw.ok
                         /\ Call(w).raw.value.body.json
                         /\ calls'[w].pc = "done"
                         /\ calls'[w].result = Ok(Call(w).raw.value.body)
           /\ \A outcome \in Outcomes(PlainDocs) :
                  (EditNowExitedWith(w, outcome) /\ ~run_node_script(outcome).ok)
                  => /\ calls'[w].pc = "done"
                     /\ calls'[w].result = Err(run_node_script(outcome).error)
                     /\ calls'[w].log = <<"spawn", "exit">>
                     /\ projects' = projects
                     /\ timelines' = timelines]_vars

\* C14 witness: an edit_now call has ended with the collaborator's document
\* after setting ENRICHED_TIMELINE_READY on its project, and the project has
\* no timeline.
C14_Witness ==
    \E w \in Workers :
        /\ Call(w).op = "edit_now"
        /\ Call(w).pc = "done"
        /\ Call(w).result.ok
        /\ Call(w).log = <<"spawn", "exit", "ENRICHED_TIMELINE_READY">>
        /\ StatusOf(projects, Call(w).project_id) = "ENRICHED_TIMELINE_READY"
        /\ Call(w).project_id \notin DOMAIN timelines

---------------------------------------------------------------------------
(* Properties of the read commands.                                        *)

\* The file is there and cannot be read as a JSON document.
Damaged(file) ==
    \/ file.state = "unreadable"
    \/ file.state = "text" /\ ~file.text.body.json

EmptyHistory(project_id) == Ok([projectId |-> project_id, history |-> <<>>])

\* C15: get_render_history and get_project_telemetry answer a history file,
\* a telemetry summary file or an event log that cannot be read, or whose
\* content is malformed, with success and an empty result, never an error.
C15_StorageFailureDowngraded ==
    reads.pc = "done" =>
        /\ (reads.op = "get_render_history" /\ Damaged(reads.history_file))
           => reads.result = EmptyHistory(reads.project_id)
        /\ (reads.op = "get_project_telemetry" /\ Damaged(reads.summary_file))
           => reads.result.ok /\ reads.result.value.summary = "null"
        /\ (reads.op = "get_project_telemetry" /\ reads.events_file.state = "unreadable")
           => reads.result.ok /\ reads.result.value.recentEvents = <<>>

\* C16: get_render_history returns success with an empty history when there
\* is no history file and when the file holds a document that is no array,
\* and returns the array as the history when the file holds one.
C16_HistoryDefensiveRead ==
    (reads.pc = "done" /\ reads.op = "get_render_history") =>
        LET file == reads.history_file
        IN  /\ file.state = "absent" => reads.result = EmptyHistory(reads.project_id)
            /\ (file.state = "text" /\ file.text.body.json) =>
                   reads.result =
                       Ok([projectId |-> reads.project_id,
                           history |-> IF file.text.body.array
                                       THEN file.text.body.items ELSE <<>>])

\* C16 witness: a history file with an array of two entries has been read
\* and the two entries are the history returned.
C16_Witness ==
    /\ reads.pc = "done"
    /\ reads.op = "get_render_history"
    /\ reads.history_file = FileOf(JsonArray(<<"render-1", "render-2">>))
    /\ reads.result.ok
    /\ reads.result.value.history = <<"render-1", "render-2">>

\* The last n elements of a sequence, all of it when it is shorter.
LastN(seq, n) == SubSeq(seq, Len(seq) - Min(n, Len(seq)) + 1, Len(seq))

\* A telemetry read whose summary file is absent or sound and whose event
\* log is exactly one malformed line among valid lines.
OneMalformedLine ==
    /\ reads.pc = "done"
    /\ reads.op = "get_project_telemetry"
    /\ ~Damaged(reads.summary_file)
    /\ reads.events_file.state = "text"
    /\ LET lines == reads.events_file.text.body
       IN  /\ \A i \in 1..Len(lines) : lines[i].kind \in {"event", "garbage"}
           /\ Cardinality({i \in 1..Len(lines) : lines[i].kind = "garbage"}) = 1

\* C17 as stated: a log of one malformed line among N valid lines gives
\* exactly the N valid events, newest first.
C17_AllValidEvents ==
    OneMalformedLine =>
        /\ reads.result.ok
        /\ reads.result.value.recentEvents =
               Reverse(ParsedEvents(reads.events_file.text.body))

\* C17: a log of one malformed line among N valid lines gives, with success,
\* the valid events among its last `limit` lines, newest first: exactly the N
\* valid events when N + 1 <= limit.
C17_ValidEventsWithinLimit ==
    OneMalformedLine =>
        LET lines == reads.events_file.text.body
            limit == EffectiveLimit(reads.limit)
        IN  /\ reads.result.ok
            /\ reads.result.value.recentEvents =
                   Reverse(ParsedEvents(LastN(lines, limit)))
            /\ Len(lines) <= limit =>
                   reads.result.value.recentEvents = Reverse(ParsedEvents(lines))

\* C17 witness: with the default limit, a log with a malformed line between
\* two events has been read as the two events, the newer first.
C17_Witness ==
    /\ reads.pc = "done"
    /\ reads.op = "get_project_telemetry"
    /\ reads.limit = NoLimit
    /\ reads.events_file = FileOf(<<EventLine(1), GarbageLine, EventLine(2)>>)
    /\ reads.result.ok
    /\ reads.result.value.recentEvents = <<2, 1>>

=============================================================================
